---- MODULE Spec2Model ----
EXTENDS Integers, Sequences, FiniteSets, TLC

\* Model of src/main.py: fetch_data -> process_data -> upload_to_sftp,
\* orchestrated by the __main__ block.

VARIABLES
  stage,        \* position of the __main__ block
  gets,         \* number of requests.get calls
  fetchRes,     \* outcome of fetch_data ("ok" or the exception class caught)
  status,       \* HTTP status of the final response (0 = no response)
  raw,          \* raw_data: [present |-> BOOLEAN, recs |-> Seq(record)]
  processCalls, \* number of process_data calls
  procErr,      \* error class logged by process_data ("none" if none)
  buf,          \* txt_buffer content as a sequence of TSV lines; <<>> = None
  uploadCalls,  \* number of upload_to_sftp calls
  logs,         \* sequence of log messages
  retries,      \* upload_to_sftp argument
  attempt,      \* loop variable of upload_to_sftp
  upc,          \* program counter inside upload_to_sftp
  transport,    \* local `transport` (0 = None, else a transport id)
  openT,        \* set of transport ids whose sockets are open
  nextT,        \* next transport id
  connects,     \* number of paramiko.Transport constructions
  sleeps,       \* number of time.sleep calls
  slept,        \* total seconds slept
  pending,      \* value being returned while the finally clause runs ("" = none)
  result,       \* value returned by upload_to_sftp
  remote,       \* content of the remote file (sequence of lines)
  writes,       \* number of successful sftp.open(remote_file_path, 'w') calls
  succAttempt,  \* attempt whose connect-write-list-close completed (0 = none)
  listFails,    \* number of sftp.listdir('/upload') calls that raised
  pdIn,         \* input handed to process_data in the PD specification
  pdOut,        \* its result
  pdDone

vars == <<stage, gets, fetchRes, status, raw, processCalls, procErr, buf, uploadCalls,
          logs, retries, attempt, upc, transport, openT, nextT, connects,
          sleeps, slept, pending, result, remote, writes, succAttempt, listFails,
          pdIn, pdOut, pdDone>>

pipeVars == <<stage, gets, fetchRes, status, raw, processCalls, procErr, buf, uploadCalls>>
upVars == <<retries, attempt, upc, transport, openT, nextT, connects, sleeps,
            slept, pending, result, remote, writes, succAttempt, listFails>>
pdVars == <<pdIn, pdOut, pdDone>>

\* ---------------------------------------------------------------------------
\* Bounds
MaxLen == 3
MaxRetries == 3

\* Program constants
DefaultRetries == 3
DefaultDelay == 5
PriceThreshold == 50

\* ---------------------------------------------------------------------------
\* Data: a record is {"id": i, "price": p}; a missing price key is "missing".
\* Price values are written as their JSON text; NumVal gives the numeric ones.
NumVal == [v \in {"30", "50", "60", "75"} |-> CASE v = "30" -> 30 [] v = "50" -> 50
                                                [] v = "60" -> 60 [] v = "75" -> 75]
PriceVals == {"missing", "30", "50", "75", "N/A"}

MkData(prices) == [present |-> TRUE,
                   recs |-> [i \in DOMAIN prices |-> [id |-> i, price |-> prices[i]]]]

NoneData == [present |-> FALSE, recs |-> <<>>]

NoBuffer == <<>>

Truthy(d) == d.present /\ Len(d.recs) > 0

IsNum(p) == p \in DOMAIN NumVal

\* pandas: df['price'] raises KeyError when no record has the key; a column
\* holding a str compared with an int raises TypeError; a missing key is NaN,
\* NaN > 50 is False, and a column containing NaN is float64 ("75.0").
HasPrice(recs) == \E i \in DOMAIN recs : recs[i].price # "missing"
HasStr(recs) == \E i \in DOMAIN recs : recs[i].price = "N/A"
HasNaN(recs) == \E i \in DOMAIN recs : recs[i].price = "missing"

FmtPrice(recs, p) == IF HasNaN(recs) THEN ToString(NumVal[p]) \o ".0" ELSE ToString(NumVal[p])

Kept(r) == IsNum(r.price) /\ NumVal[r.price] > PriceThreshold

Header == <<"id", "price">>

ToCsv(recs) ==
  LET f == SelectSeq(recs, Kept)
  IN <<Header>> \o [i \in DOMAIN f |-> <<ToString(f[i].id), FmtPrice(recs, f[i].price)>>]

\* Variant without the `if not data` validation.
ProcessDataNoCheck(d) ==
  IF ~Truthy(d) \/ ~HasPrice(d.recs) THEN [buf |-> NoBuffer, err |-> "KeyError"]
  ELSE IF HasStr(d.recs) THEN [buf |-> NoBuffer, err |-> "TypeError"]
  ELSE [buf |-> ToCsv(d.recs), err |-> "none"]

ProcessData(d) ==
  IF ~Truthy(d) THEN [buf |-> NoBuffer, err |-> "ValueError"]
  ELSE IF ~HasPrice(d.recs) THEN [buf |-> NoBuffer, err |-> "KeyError"]
  ELSE IF HasStr(d.recs) THEN [buf |-> NoBuffer, err |-> "TypeError"]
  ELSE [buf |-> ToCsv(d.recs), err |-> "none"]

\* ---------------------------------------------------------------------------
\* fetch_data + the `if raw_data` branch of __main__
FetchOutcomes == {"ok", "ConnectionError", "HTTPError", "RequestException", "Exception"}
FetchInputs == {MkData(<<>>), MkData(<<"30">>), MkData(<<"75">>), MkData(<<"30", "75", "N/A">>),
                MkData(<<"30", "75", "60">>)}

FetchLog(o) ==
  CASE o = "ok" -> "fetch_ok"
    [] o = "ConnectionError" -> "fetch_connection_error"
    [] o = "HTTPError" -> "fetch_http_error"
    [] o = "RequestException" -> "fetch_request_error"
    [] o = "Exception" -> "fetch_unexpected_error"

FetchStageMsgs == {"fetch_connection_error", "fetch_http_error", "fetch_request_error",
                   "fetch_unexpected_error", "main_fetch_failed"}

UpInit(r) ==
  /\ retries = r
  /\ attempt = 0
  /\ upc = "idle"
  /\ transport = 0
  /\ openT = {}
  /\ nextT = 1
  /\ connects = 0
  /\ sleeps = 0
  /\ slept = 0
  /\ pending = ""
  /\ result = ""
  /\ remote = <<>>
  /\ writes = 0
  /\ succAttempt = 0
  /\ listFails = 0

Init ==
  /\ stage = "fetch"
  /\ gets = 0
  /\ fetchRes = ""
  /\ status = 0
  /\ raw = NoneData
  /\ processCalls = 0
  /\ procErr = "none"
  /\ buf = NoBuffer
  /\ uploadCalls = 0
  /\ logs = <<>>
  /\ UpInit(DefaultRetries)
  /\ pdIn = NoneData
  /\ pdOut = [buf |-> NoBuffer, err |-> "none"]
  /\ pdDone = FALSE

\* One fetch_data call: its outcome, the status of the final response and its
\* log lines. requests follows redirects; a final 3xx (300, or a redirect
\* without Location) is not raised by raise_for_status(), which raises only for
\* 4xx and 5xx. response.json() failing (JSONDecodeError, a RequestException
\* with requests >= 2.27, or ValueError before) happens after line 48, on any
\* status raise_for_status() lets through.
FetchCases ==
  {[o |-> "ok", status |-> st, fl |-> <<"fetch_ok">>] : st \in {200, 300}}
  \cup {[o |-> "HTTPError", status |-> st, fl |-> <<"fetch_http_error">>] : st \in {404, 500}}
  \cup {[o |-> "ConnectionError", status |-> 0, fl |-> <<"fetch_connection_error">>]}
  \cup {[o |-> o, status |-> 0, fl |-> <<FetchLog(o)>>] : o \in {"RequestException", "Exception"}}
  \cup {[o |-> o, status |-> st, fl |-> <<"fetch_ok", FetchLog(o)>>] :
          o \in {"RequestException", "Exception"}, st \in {200, 300}}

FetchStage ==
  /\ stage = "fetch"
  /\ gets' = gets + 1
  /\ \E c \in FetchCases :
       /\ fetchRes' = c.o
       /\ status' = c.status
       /\ \E d \in (IF c.o = "ok" THEN FetchInputs ELSE {NoneData}) :
            /\ raw' = d
            /\ IF Truthy(d)
                 THEN /\ stage' = "process"
                      /\ logs' = logs \o c.fl
                 ELSE /\ stage' = "end"
                      /\ logs' = logs \o c.fl \o <<"main_fetch_failed">>
  /\ UNCHANGED <<processCalls, procErr, buf, uploadCalls>>
  /\ UNCHANGED upVars
  /\ UNCHANGED pdVars

\* process_data + the `if txt_buffer` branch of __main__ (a StringIO is truthy)
ProcessStage ==
  /\ stage = "process"
  /\ processCalls' = processCalls + 1
  /\ LET r == ProcessData(raw) IN
       /\ procErr' = r.err
       /\ buf' = r.buf
       /\ IF r.buf # NoBuffer
            THEN /\ stage' = "upload"
                 /\ uploadCalls' = uploadCalls + 1
                 /\ upc' = "loop"
                 /\ attempt' = 1
                 /\ logs' = Append(logs, "process_ok")
            ELSE /\ stage' = "end"
                 /\ UNCHANGED <<uploadCalls, upc, attempt>>
                 /\ logs' = Append(logs, IF r.err = "ValueError" THEN "process_value_error"
                                         ELSE "process_unexpected_error")
  /\ UNCHANGED <<gets, fetchRes, status, raw>>
  /\ UNCHANGED <<retries, transport, openT, nextT, connects, sleeps, slept,
                 pending, result, remote, writes, succAttempt, listFails>>
  /\ UNCHANGED pdVars

\* ---------------------------------------------------------------------------
\* upload_to_sftp: one action per step of an attempt

\* for attempt in range(1, retries + 1): loop test; falling off returns None
UpLoop ==
  /\ stage = "upload" /\ upc = "loop"
  /\ IF attempt <= retries
       THEN /\ upc' = "transport"
            /\ UNCHANGED result
       ELSE /\ upc' = "ret"
            /\ result' = "None"
  /\ UNCHANGED <<retries, attempt, transport, openT, nextT, connects, sleeps, slept,
                 pending, remote, writes, succAttempt, listFails>>
  /\ UNCHANGED <<pipeVars, logs, pdVars>>

\* txt_buffer.seek(0); transport = paramiko.Transport((sftp_host, sftp_port))
UpTransport ==
  /\ stage = "upload" /\ upc = "transport"
  /\ connects' = connects + 1
  /\ \/ /\ transport' = nextT
        /\ openT' = openT \cup {nextT}
        /\ nextT' = nextT + 1
        /\ upc' = "connect"
     \/ /\ upc' = "except"
        /\ UNCHANGED <<transport, openT, nextT>>
  /\ UNCHANGED <<retries, attempt, sleeps, slept, pending, result, remote, writes, succAttempt, listFails>>
  /\ UNCHANGED <<pipeVars, logs, pdVars>>

\* Generic step that either succeeds (moving to `next`) or raises.
Step(from, next) ==
  /\ stage = "upload" /\ upc = from
  /\ upc' \in {next, "except"}
  /\ UNCHANGED <<retries, attempt, transport, openT, nextT, connects, sleeps, slept,
                 pending, result, remote, writes, succAttempt, listFails>>
  /\ UNCHANGED <<pipeVars, logs, pdVars>>

\* transport.connect(username=..., password=...)
UpConnect == Step("connect", "sftp")

\* sftp = paramiko.SFTPClient.from_transport(transport)
UpSftp == Step("sftp", "open")

\* Variant opening the remote file in append mode ('a').
UpOpenAppend ==
  /\ stage = "upload" /\ upc = "open"
  /\ \/ /\ upc' = "write"
        /\ writes' = writes + 1
     \/ /\ upc' = "except"
        /\ UNCHANGED writes
  /\ UNCHANGED <<retries, attempt, transport, openT, nextT, connects, sleeps, slept,
                 pending, result, remote, succAttempt, listFails>>
  /\ UNCHANGED <<pipeVars, logs, pdVars>>

\* sftp.open(remote_file_path, 'w'): truncate-create
UpOpen ==
  /\ stage = "upload" /\ upc = "open"
  /\ \/ /\ upc' = "write"
        /\ remote' = <<>>
        /\ writes' = writes + 1
     \/ /\ upc' = "except"
        /\ UNCHANGED <<remote, writes>>
  /\ UNCHANGED <<retries, attempt, transport, openT, nextT, connects, sleeps, slept,
                 pending, result, succAttempt, listFails>>
  /\ UNCHANGED <<pipeVars, logs, pdVars>>

\* remote_file.write(txt_buffer.getvalue()) and the close at the end of `with`;
\* a failure leaves a prefix of the content on the server (the whole content
\* when only the file's close request fails after the flush)
UpWrite ==
  /\ stage = "upload" /\ upc = "write"
  /\ \/ /\ upc' = "list"
        /\ remote' = remote \o buf
     \/ /\ upc' = "except"
        /\ \E n \in 0..Len(buf) : remote' = remote \o SubSeq(buf, 1, n)
  /\ UNCHANGED <<retries, attempt, transport, openT, nextT, connects, sleeps, slept,
                 pending, result, writes, succAttempt, listFails>>
  /\ UNCHANGED <<pipeVars, logs, pdVars>>

\* files = sftp.listdir('/upload')
\* Variant in which a failed listing does not fail the attempt (spec s.9).
UpListIgnoreFail ==
  /\ stage = "upload" /\ upc = "list"
  /\ upc' = "close"
  /\ listFails' \in {listFails, listFails + 1}
  /\ UNCHANGED <<retries, attempt, transport, openT, nextT, connects, sleeps, slept,
                 pending, result, remote, writes, succAttempt>>
  /\ UNCHANGED <<pipeVars, logs, pdVars>>

UpList ==
  /\ stage = "upload" /\ upc = "list"
  /\ \/ upc' = "close" /\ UNCHANGED listFails
     \/ upc' = "except" /\ listFails' = listFails + 1
  /\ UNCHANGED <<retries, attempt, transport, openT, nextT, connects, sleeps, slept,
                 pending, result, remote, writes, succAttempt>>
  /\ UNCHANGED <<pipeVars, logs, pdVars>>

\* Variant without the `return "upload_successful"`.
UpCloseNoReturn ==
  /\ stage = "upload" /\ upc = "close"
  /\ \/ /\ openT' = openT \ {transport}
        /\ succAttempt' = attempt
        /\ upc' = "finally"
     \/ /\ upc' = "except"
        /\ UNCHANGED <<openT, succAttempt>>
  /\ UNCHANGED <<retries, attempt, transport, nextT, connects, sleeps, slept,
                 pending, result, remote, writes, listFails>>
  /\ UNCHANGED <<pipeVars, logs, pdVars>>

\* sftp.close(); transport.close(); return "upload_successful" (finally runs
\* next); sftp.close() raising sends the attempt to the except clause
UpClose ==
  /\ stage = "upload" /\ upc = "close"
  /\ \/ /\ openT' = openT \ {transport}
        /\ pending' = "upload_successful"
        /\ succAttempt' = attempt
        /\ upc' = "finally"
     \/ /\ upc' = "except"
        /\ UNCHANGED <<openT, pending, succAttempt>>
  /\ UNCHANGED <<retries, attempt, transport, nextT, connects, sleeps, slept,
                 result, remote, writes, listFails>>
  /\ UNCHANGED <<pipeVars, logs, pdVars>>

\* Variant testing `attempt <= retries` before sleeping.
UpExceptOffByOne ==
  /\ stage = "upload" /\ upc = "except"
  /\ IF attempt <= retries
       THEN /\ upc' = "sleep"
            /\ logs' = logs \o <<"upload_attempt_failed", "upload_retrying">>
            /\ UNCHANGED pending
       ELSE /\ upc' = "finally"
            /\ pending' = "upload_failed"
            /\ logs' = logs \o <<"upload_attempt_failed", "upload_all_failed", "upload_gave_up">>
  /\ UNCHANGED <<retries, attempt, transport, openT, nextT, connects, sleeps, slept,
                 result, remote, writes, succAttempt, listFails>>
  /\ UNCHANGED <<pipeVars, pdVars>>

\* except Exception: log the attempt; if attempt < retries go to sleep, else
\* log exhaustion and return "upload_failed" (finally runs next)
UpExcept ==
  /\ stage = "upload" /\ upc = "except"
  /\ IF attempt < retries
       THEN /\ upc' = "sleep"
            /\ logs' = logs \o <<"upload_attempt_failed", "upload_retrying">>
            /\ UNCHANGED pending
       ELSE /\ upc' = "finally"
            /\ pending' = "upload_failed"
            /\ logs' = logs \o <<"upload_attempt_failed", "upload_all_failed", "upload_gave_up">>
  /\ UNCHANGED <<retries, attempt, transport, openT, nextT, connects, sleeps, slept,
                 result, remote, writes, succAttempt, listFails>>
  /\ UNCHANGED <<pipeVars, pdVars>>

\* time.sleep(delay)
UpSleep ==
  /\ stage = "upload" /\ upc = "sleep"
  /\ sleeps' = sleeps + 1
  /\ slept' = slept + DefaultDelay
  /\ upc' = "finally"
  /\ UNCHANGED <<retries, attempt, transport, openT, nextT, connects,
                 pending, result, remote, writes, succAttempt, listFails>>
  /\ UNCHANGED <<pipeVars, logs, pdVars>>

\* Variant without the finally clause's transport.close().
UpFinallyNoClose ==
  /\ stage = "upload" /\ upc = "finally"
  /\ UNCHANGED openT
  /\ IF pending # ""
       THEN /\ upc' = "ret"
            /\ result' = pending
            /\ UNCHANGED attempt
       ELSE /\ upc' = "loop"
            /\ attempt' = attempt + 1
            /\ UNCHANGED result
  /\ UNCHANGED <<retries, transport, nextT, connects, sleeps, slept,
                 pending, remote, writes, succAttempt, listFails>>
  /\ UNCHANGED <<pipeVars, logs, pdVars>>

\* finally: if transport: transport.close(); then return or next iteration
UpFinally ==
  /\ stage = "upload" /\ upc = "finally"
  /\ openT' = IF transport # 0 THEN openT \ {transport} ELSE openT
  /\ IF pending # ""
       THEN /\ upc' = "ret"
            /\ result' = pending
            /\ UNCHANGED attempt
       ELSE /\ upc' = "loop"
            /\ attempt' = attempt + 1
            /\ UNCHANGED result
  /\ UNCHANGED <<retries, transport, nextT, connects, sleeps, slept,
                 pending, remote, writes, succAttempt, listFails>>
  /\ UNCHANGED <<pipeVars, logs, pdVars>>

\* __main__: final log according to the value returned by upload_to_sftp
MainFinish ==
  /\ stage = "upload" /\ upc = "ret"
  /\ stage' = "end"
  /\ logs' = IF result = "upload_successful" THEN Append(logs, "main_success")
             ELSE IF result = "upload_failed" THEN Append(logs, "main_upload_failed")
             ELSE logs
  /\ UNCHANGED <<gets, fetchRes, status, raw, processCalls, procErr, buf, uploadCalls>>
  /\ UNCHANGED upVars
  /\ UNCHANGED pdVars

UploadNext ==
  \/ UpLoop \/ UpTransport \/ UpConnect \/ UpSftp \/ UpOpen \/ UpWrite
  \/ UpList \/ UpClose \/ UpExcept \/ UpSleep \/ UpFinally

Next == FetchStage \/ ProcessStage \/ UploadNext \/ MainFinish

Spec == Init /\ [][Next]_vars

\* upload_to_sftp called directly with any retries and the end-to-end buffer
SampleData == MkData(<<"30", "75", "60">>)

UploadInit ==
  /\ stage = "upload"
  /\ gets = 0
  /\ fetchRes = ""
  /\ status = 0
  /\ raw = SampleData
  /\ processCalls = 0
  /\ procErr = "none"
  /\ buf = ProcessData(SampleData).buf
  /\ uploadCalls = 1
  /\ logs = <<>>
  /\ \E r \in -1..MaxRetries : UpInit(r)
  /\ pdIn = NoneData
  /\ pdOut = [buf |-> NoBuffer, err |-> "none"]
  /\ pdDone = FALSE

\* the call itself: attempt = 1, enter the loop
UpCall ==
  /\ stage = "upload" /\ upc = "idle"
  /\ upc' = "loop"
  /\ attempt' = 1
  /\ UNCHANGED <<retries, transport, openT, nextT, connects, sleeps, slept,
                 pending, result, remote, writes, succAttempt, listFails>>
  /\ UNCHANGED <<pipeVars, logs, pdVars>>

UploadSpec == UploadInit /\ [][UpCall \/ UploadNext]_vars

\* process_data applied to a bounded set of inputs
PDInputs == {NoneData} \cup
            UNION {{MkData(f) : f \in [1..n -> PriceVals]} : n \in 0..MaxLen}

PDInit ==
  /\ stage = "end"
  /\ gets = 0
  /\ fetchRes = ""
  /\ status = 0
  /\ raw = NoneData
  /\ processCalls = 0
  /\ procErr = "none"
  /\ buf = NoBuffer
  /\ uploadCalls = 0
  /\ logs = <<>>
  /\ UpInit(DefaultRetries)
  /\ pdIn \in PDInputs
  /\ pdOut = [buf |-> NoBuffer, err |-> "none"]
  /\ pdDone = FALSE

PDApply ==
  /\ ~pdDone
  /\ pdOut' = ProcessData(pdIn)
  /\ pdDone' = TRUE
  /\ UNCHANGED pdIn
  /\ UNCHANGED <<pipeVars, logs, upVars>>

PDSpec == PDInit /\ [][PDApply]_vars

\* ---------------------------------------------------------------------------
\* Claims

\* C1: with retries >= 1 and every attempt failing, upload_to_sftp constructs
\* exactly `retries` transports, sleeps `delay` retries-1 times and returns
\* "upload_failed".
C1_AllFail ==
  (upc = "ret" /\ retries >= 1 /\ succAttempt = 0) =>
    /\ connects = retries
    /\ sleeps = retries - 1
    /\ slept = (retries - 1) * DefaultDelay
    /\ result = "upload_failed"

C1_Witness == upc = "ret" /\ retries = 3 /\ succAttempt = 0

\* C2: when attempt k is the first to complete, no further transport is
\* constructed, no sleep follows it, and "upload_successful" is returned.
C2_SuccessStops ==
  (upc = "ret" /\ succAttempt > 0) =>
    /\ connects = succAttempt
    /\ sleeps = succAttempt - 1
    /\ result = "upload_successful"

C2_Witness == upc = "ret" /\ succAttempt = 2

\* C3: at most one transport is open at any time, none is open when a new one
\* is constructed, and none is open when upload_to_sftp has returned.
C3_TransportClosed ==
  /\ Cardinality(openT) <= 1
  /\ (upc = "transport" => openT = {})
  /\ (upc = "ret" => openT = {})

C3_Witness == upc = "ret" /\ connects >= 2 /\ nextT >= 3

\* C4: during the sleep between two attempts the failed attempt's transport
\* is already closed.
C4_ClosedBeforeSleep == upc = "sleep" => openT = {}

\* C5: upload_to_sftp always returns "upload_successful" or "upload_failed".
C5_Outcome == upc = "ret" => result \in {"upload_successful", "upload_failed"}

\* C6: when the fetch stage fails (connection error, any non-2xx status,
\* unparseable body), exactly one GET was issued, no data is returned, and
\* process_data and upload_to_sftp are never called; only fetch-stage failures
\* are logged (besides the informational line 48 preceding a json() failure).
FetchFailed == fetchRes \in FetchOutcomes \ {"ok"}

NonTwoXX == status # 0 /\ (status < 200 \/ status > 299)

C6_FetchFailHalts ==
  (stage # "fetch" /\ (FetchFailed \/ NonTwoXX)) =>
    /\ gets = 1
    /\ raw = NoneData
    /\ processCalls = 0
    /\ uploadCalls = 0
    /\ \A i \in DOMAIN logs : logs[i] \in FetchStageMsgs \cup {"fetch_ok"}

\* C7: every run ends with exactly one final message of the orchestrator,
\* the one matching the outcome of the run.
FinalMsgs == {"main_fetch_failed", "main_processing_failed", "main_upload_failed", "main_success"}

ExpectedFinal ==
  IF ~Truthy(raw) THEN "main_fetch_failed"
  ELSE IF buf = NoBuffer THEN "main_processing_failed"
  ELSE IF result = "upload_failed" THEN "main_upload_failed"
  ELSE "main_success"

C7_FinalMessage ==
  stage = "end" =>
    /\ Cardinality({i \in DOMAIN logs : logs[i] \in FinalMsgs}) = 1
    /\ \E i \in DOMAIN logs : logs[i] = ExpectedFinal

\* C8: on a non-empty record list process_data returns a buffer: the header
\* then, in order, one line per record whose numeric price exceeds 50.
C8_Filter ==
  (pdDone /\ Truthy(pdIn)) =>
    LET f == SelectSeq(pdIn.recs, Kept) IN
    /\ pdOut.buf # NoBuffer
    /\ pdOut.buf[1] = Header
    /\ Len(pdOut.buf) = Len(f) + 1
    /\ \A i \in DOMAIN f : pdOut.buf[i + 1][1] = ToString(f[i].id)

\* C9: process_data on [] or None logs a ValueError and returns None.
C9_EmptyRejected ==
  (pdDone /\ ~Truthy(pdIn)) => pdOut = [buf |-> NoBuffer, err |-> "ValueError"]

C9_Witness == pdDone /\ ~pdIn.present

\* C10: a failed directory listing fails the attempt, so every such failure is
\* followed by another truncating open and full write before success; and
\* whenever upload_to_sftp returns success, the remote file holds exactly the
\* whole buffer content.
C10_RemoteWhole ==
  (upc = "ret" /\ result = "upload_successful") =>
    /\ remote = buf
    /\ writes >= listFails + 1

C10_Witness == upc = "ret" /\ result = "upload_successful" /\ listFails >= 1

====
